---------------------------- MODULE Spec2Model ----------------------------
(***************************************************************************)
(* md2MarpAPI: Markdown -> Marp slide deck.                                *)
(*                                                                         *)
(* The repository holds two versions of the program: src/indev/main.go     *)
(* (version "indev") and the repository's other main file,                 *)
(* src/unnamed/part_000 (version "root").  Where the two differ the model  *)
(* carries the version in the variable ver and follows each one's code.    *)
(*                                                                         *)
(* A Go string is modelled as a sequence of pieces.  A piece is either a   *)
(* single character that the code looks at (newline, space, ':', '#', '-') *)
(* or an atom: a non-empty run of characters none of which is one of       *)
(* those (a word, a URL, a fixed literal of a format string).  String      *)
(* concatenation is sequence concatenation.                                *)
(***************************************************************************)
EXTENDS Integers, Sequences, FiniteSets, TLC

NL == "\n"
SP == " "
Whitespace == {SP, NL, "\t", "\r"}
\* a backquote, and a run of three
BQ == "BQ"
BQ3 == "BQBQBQ"

\* ------------------------------------------------------------ bounds
\* longest text handed to extractTextFromQiitaBlock
MaxLen == 4
\* most slides handed to the partitioning alone (SpecBatch): past two full batches
MaxBatchSlides == 31
\* most slides handed to a summarization run (Spec)
MaxSlides == 5
\* the batch size of a summarization run in Spec.  The code's s_size is 13
\* (indev) or 15 (root); thirteen concurrent requests are beyond exhaustive
\* exploration, so Spec runs analyzeContentWithGemini with this smaller size.
\* The partitioning itself is checked with 13 and 15 in SpecBatch.
BatchSize == 2
\* most deferred images
MaxImages == 2
\* most text parts in one response
MaxParts == 2
\* most fragments (see Fragments) a segmented document is made of
MaxBlocks == 3
\* most slides handed to convertToMarp alone (SpecMarp)
MaxMarpSlides == 2
MaxLiveSlides == 4
MaxConvBlocks == 3
MaxCarried == 1

\* ------------------------------------------------------------ program constants
\* var s_size = 13 (indev)
s_size_indev == 13
\* the literal 15 (root)
s_size_root == 15

\* ------------------------------------------------------------ strings
RECURSIVE Concat(_)
\* the concatenation of a sequence of strings
Concat(ss) ==
  IF ss = <<>> THEN <<>> ELSE Head(ss) \o Concat(Tail(ss))

\* strings.HasPrefix
HasPrefix(s, p) ==
  /\ Len(p) <= Len(s)
  /\ SubSeq(s, 1, Len(p)) = p

\* strings.Contains
Contains(s, p) ==
  \E k \in 0..(Len(s) - Len(p)) : SubSeq(s, k + 1, k + Len(p)) = p

RECURSIVE TrimLeft(_)
TrimLeft(s) ==
  IF s # <<>> /\ Head(s) \in Whitespace THEN TrimLeft(Tail(s)) ELSE s

RECURSIVE TrimRight(_)
TrimRight(s) ==
  IF s # <<>> /\ s[Len(s)] \in Whitespace
  THEN TrimRight(SubSeq(s, 1, Len(s) - 1))
  ELSE s

\* strings.TrimSpace
TrimSpace(s) == TrimRight(TrimLeft(s))

RECURSIVE SplitFrom(_, _, _)
\* strings.Split(s, "\n"), scanning from position k with the line cur open
SplitFrom(s, k, cur) ==
  IF k > Len(s) THEN <<cur>>
  ELSE IF s[k] = NL THEN <<cur>> \o SplitFrom(s, k + 1, <<>>)
  ELSE SplitFrom(s, k + 1, Append(cur, s[k]))

\* strings.Split(s, "\n"): always at least one line, "" gives one empty line
Split(s) == SplitFrom(s, 1, <<>>)

\* fmt.Sprintln(s): the operand followed by a newline
Sprintln(s) == s \o <<NL>>

\* ------------------------------------------------------------ Qiita filter
QiitaTag == <<":", ":", ":">>

\* isQiitaBlock
isQiitaBlock(content) == Contains(TrimSpace(content), QiitaTag)

\* a mutant of isTagLine: the tag anywhere in the line
isTagLineAnywhere(trimmed) == Contains(trimmed, QiitaTag)

\* the test of extractTextFromQiitaBlock's loop: a tag line is skipped
isTagLine(trimmed) == HasPrefix(trimmed, QiitaTag)

RECURSIVE QiitaLines(_)
\* the loop of extractTextFromQiitaBlock over the lines that are left
QiitaLines(ls) ==
  IF ls = <<>> THEN <<>>
  ELSE IF isTagLine(TrimSpace(Head(ls))) THEN QiitaLines(Tail(ls))
  ELSE TrimSpace(Head(ls)) \o <<NL>> \o QiitaLines(Tail(ls))

\* extractTextFromQiitaBlock
extractTextFromQiitaBlock(blockText) == QiitaLines(Split(blockText))

VARIABLES
  q_pc,        \* extractTextFromQiitaBlock: "loop" | "done"
  q_text,      \* its argument blockText
  q_lines,     \* lines
  q_i,         \* the loop's position in lines
  q_result,    \* result (the strings.Builder)
  q_pass       \* 1: a text of the caller, 2: the filter's own output fed back

qvars == <<q_pc, q_text, q_lines, q_i, q_result, q_pass>>

VARIABLES
  slides,        \* []*Slide: the Slide objects in order, [Title, Content]; a
                 \* pointer to a slide is its position in this sequence
  images,        \* var images []string
  images_index,  \* var images_index []int
  s_size,        \* analyzeContentWithGemini: the batch size
  slide_parts,   \* slide_parts: the batches, each a sequence of slide pointers
  an_pc,         \* analyzeContentWithGemini's control thread: "partition" |
                 \* "spawn" | "wait" | "joined" | "attach" | "done"; "off": not called
  j,             \* the batch loop's index, counted from 1
  task,          \* per slide, its goroutine: "none" | "ready" | "sent" | "ok" | "failed"
  prompt,        \* per slide, the slide.Content its goroutine put into the prompt
  resp,          \* per slide, resp.Candidates[0].Content.Parts as received
  requests,      \* per slide, how many times GenerateContent was called for it
  sleeps,        \* how many times time.Sleep was called
  before,        \* the slides' contents when the last reattachment pass began
  an_err         \* the error analyzeContentWithGemini returned: "none" until it returns

avars == <<slides, images, images_index, s_size, slide_parts, an_pc, j, task,
           prompt, resp, requests, sleeps, before, an_err>>

VARIABLES
  ver,           \* which main file runs: "indev" | "root"
  doc,           \* the tree goldmark parsed, its nodes in pre-order (the order
                 \* ast.Walk enters them); each node carries the size of its subtree
  pos,           \* the position in doc of the node ast.Walk enters next
  p_pc,          \* parseMarkdown: "walk" | "done"; "off": not called
  currentSlide,  \* currentSlide: <<>> for nil, else <<the slide>>
  count,         \* count
  afterOption    \* afterOption (indev), afterList (root)

pvars == <<ver, doc, pos, p_pc, currentSlide, count, afterOption>>

\* what parseMarkdown reads and writes outside pvars
pshared == <<slides, images, images_index>>

\* the variables of analyzeContentWithGemini alone
aonly == <<s_size, slide_parts, an_pc, j, task, prompt, resp, requests,
           sleeps, before, an_err>>

VARIABLES
  m_pc,          \* convertToMarp: "header" | "loop" | "done"; "off": not called
  m_title,       \* title (indev)
  m_style,       \* style (indev)
  m_i,           \* the loop's position in slides
  marpBuilder    \* marpBuilder

mvars == <<m_pc, m_title, m_style, m_i, marpBuilder>>

vars == <<qvars, avars, pvars, mvars>>

QiitaAlphabet == {"a", SP, ":", NL}

RECURSIVE TextsUpTo(_)
\* all texts over QiitaAlphabet of length at most n
TextsUpTo(n) ==
  IF n = 0 THEN {<<>>}
  ELSE LET shorter == TextsUpTo(n - 1)
       IN shorter \cup {Append(t, c) : t \in {u \in shorter : Len(u) = n - 1}, c \in QiitaAlphabet}

QiitaCall(t, pass) ==
  /\ q_pc' = "loop"
  /\ q_text' = t
  /\ q_lines' = Split(t)
  /\ q_i' = 1
  /\ q_result' = <<>>
  /\ q_pass' = pass

\* extractTextFromQiitaBlock is not running
QiitaOff ==
  /\ q_pc = "off"
  /\ q_text = <<>>
  /\ q_lines = <<>>
  /\ q_i = 0
  /\ q_result = <<>>
  /\ q_pass = 0

\* convertToMarp is not running
MarpOff ==
  /\ m_pc = "off"
  /\ m_title = <<>>
  /\ m_style = 0
  /\ m_i = 0
  /\ marpBuilder = <<>>

\* parseMarkdown is not running
ParseOff ==
  /\ doc = <<>>
  /\ pos = 0
  /\ p_pc = "off"
  /\ currentSlide = <<>>
  /\ count = 0
  /\ afterOption = FALSE

\* analyzeContentWithGemini is not running and nothing was segmented
AnalyzeOff ==
  /\ slides = <<>>
  /\ images = <<>>
  /\ images_index = <<>>
  /\ s_size = 0
  /\ slide_parts = <<>>
  /\ an_pc = "off"
  /\ j = 0
  /\ task = <<>>
  /\ prompt = <<>>
  /\ resp = <<>>
  /\ requests = <<>>
  /\ sleeps = 0
  /\ before = <<>>
  /\ an_err = "none"

QiitaInit ==
  /\ \E t \in TextsUpTo(MaxLen) :
       /\ q_pc = "loop"
       /\ q_text = t
       /\ q_lines = Split(t)
       /\ q_i = 1
       /\ q_result = <<>>
       /\ q_pass = 1
  /\ AnalyzeOff
  /\ ParseOff
  /\ MarpOff
  /\ ver = "indev"

\* one iteration on a tag line: continue
QiitaSkipLine ==
  /\ q_pc = "loop"
  /\ q_i <= Len(q_lines)
  /\ isTagLine(TrimSpace(q_lines[q_i]))
  /\ q_i' = q_i + 1
  /\ UNCHANGED <<q_pc, q_text, q_lines, q_result, q_pass>>
  /\ UNCHANGED <<avars, pvars, mvars>>

\* one iteration on any other line: result.WriteString(trimmed + "\n")
QiitaWriteLine ==
  /\ q_pc = "loop"
  /\ q_i <= Len(q_lines)
  /\ ~isTagLine(TrimSpace(q_lines[q_i]))
  /\ q_result' = q_result \o TrimSpace(q_lines[q_i]) \o <<NL>>
  /\ q_i' = q_i + 1
  /\ UNCHANGED <<q_pc, q_text, q_lines, q_pass>>
  /\ UNCHANGED <<avars, pvars, mvars>>

\* return result.String()
QiitaReturn ==
  /\ q_pc = "loop"
  /\ q_i > Len(q_lines)
  /\ q_pc' = "done"
  /\ UNCHANGED <<q_text, q_lines, q_i, q_result, q_pass>>
  /\ UNCHANGED <<avars, pvars, mvars>>

\* the caller filters the text the filter returned
QiitaAgain ==
  /\ q_pc = "done"
  /\ q_pass = 1
  /\ QiitaCall(q_result, 2)
  /\ UNCHANGED <<avars, pvars, mvars>>

QiitaNext == QiitaSkipLine \/ QiitaWriteLine \/ QiitaReturn \/ QiitaAgain

SpecQiita == QiitaInit /\ [][QiitaNext]_vars

\* ------------------------------------------------------------ Batch Summarizer
\* the positions a..b in order (empty when a > b)
Range(a, b) == [k \in 1..(b - a + 1) |-> a + k - 1]

\* a mutant of BlockCount: the division rounded down
BlockCountFloor(n, size) == n \div size

\* block := math.Ceil(float64(len(slides)) / float64(s_size))
BlockCount(n, size) == (n + size - 1) \div size

\* one iteration of the partitioning loop, i counted from 0:
\* start := i * s_size; end := start + s_size, cut to len(slides);
\* slides[start:end] holds the positions start+1 .. end
BatchSlice(i, n, size) ==
  LET start == i * size
      end == IF start + size > n THEN n ELSE start + size
  IN Range(start + 1, end)

\* slide_parts as analyzeContentWithGemini builds it for n slides
SlideParts(n, size) ==
  IF n > size
  THEN [b \in 1..BlockCount(n, size) |-> BatchSlice(b - 1, n, size)]
  ELSE <<Range(1, n)>>

\* fmt.Sprintf("\n---\n![bg fit](%s)\n", imageSrc)
ImageMarkup(src) == <<NL, "-", "-", "-", NL, "![bg fit](", src, ")", NL>>

\* the content parseMarkdown left in the slide at position i
InitialContent(i) == <<"c" \o ToString(i), NL>>

\* the source of the k-th image of the document
ImageSrc(k) == "u" \o ToString(k)

\* a response's text parts: m parts, the k-th being the text "p<k>"
Parts(m) == [k \in 1..m |-> <<"p" \o ToString(k)>>]

\* how many text parts a response may hold: one, or the most
PartCounts == {1, MaxParts}

RECURSIVE NonDecreasing(_, _, _)
\* the sequences of length len over lo..hi that never decrease
NonDecreasing(len, lo, hi) ==
  IF len = 0 THEN {<<>>}
  ELSE UNION {{<<v>> \o rest : rest \in NonDecreasing(len - 1, v, hi)} : v \in lo..hi}

\* the states parseMarkdown (indev) leaves behind for a document with n qualifying
\* headings and m images below them: count only grows, so images_index never
\* decreases, and an image is recorded only under an open slide, 1 <= count <= n
AnalyzeCalled(n, size, idx) ==
  /\ slides = [i \in 1..n |-> [Title |-> <<"T" \o ToString(i)>>, Content |-> InitialContent(i)]]
  /\ images = [k \in 1..Len(idx) |-> ImageMarkup(ImageSrc(k))]
  /\ images_index = idx
  /\ s_size = size
  /\ slide_parts = <<>>
  /\ an_pc = "partition"
  /\ j = 0
  /\ task = [i \in 1..n |-> "none"]
  /\ prompt = [i \in 1..n |-> <<>>]
  /\ resp = [i \in 1..n |-> <<>>]
  /\ requests = [i \in 1..n |-> 0]
  /\ sleeps = 0
  /\ before = [i \in 1..n |-> <<>>]
  /\ an_err = "none"

\* lines 209-225: build slide_parts
Partition ==
  /\ an_pc = "partition"
  /\ slide_parts' = SlideParts(Len(slides), s_size)
  /\ j' = 1
  /\ an_pc' = "spawn"
  /\ UNCHANGED <<slides, images, images_index, s_size, task, prompt, resp,
                 requests, sleeps, before, an_err>>
  /\ UNCHANGED <<qvars, pvars, mvars>>

\* the slides of batch b, as a set
BatchSet(b) == {slide_parts[b][k] : k \in 1..Len(slide_parts[b])}

\* lines 231-250: the inner loop starts one goroutine per slide of the batch
StartBatch ==
  /\ an_pc = "spawn"
  /\ task' = [i \in DOMAIN task |-> IF i \in BatchSet(j) THEN "ready" ELSE task[i]]
  /\ an_pc' = "wait"
  /\ UNCHANGED <<slides, images, images_index, s_size, slide_parts, j, prompt,
                 resp, requests, sleeps, before, an_err>>
  /\ UNCHANGED <<qvars, pvars, mvars>>

\* lines 237-240: the goroutine reads slide.Content into the prompt and calls
\* model.GenerateContent
TaskSend(i) ==
  /\ task[i] = "ready"
  /\ prompt' = [prompt EXCEPT ![i] = slides[i].Content]
  /\ requests' = [requests EXCEPT ![i] = @ + 1]
  /\ task' = [task EXCEPT ![i] = "sent"]
  /\ UNCHANGED <<slides, images, images_index, s_size, slide_parts, an_pc, j,
                 resp, sleeps, before, an_err>>
  /\ UNCHANGED <<qvars, pvars, mvars>>

\* a mutant of OnError: the failed slide loses its content
OnErrorClear(content) == <<>>

\* lines 241-244: what a failed request leaves in slide.Content
OnError(content) == content

\* lines 241-244: the call returned an error: log, return (wg.Done)
TaskFail(i) ==
  /\ task[i] = "sent"
  /\ slides' = [slides EXCEPT ![i].Content = OnError(@)]
  /\ task' = [task EXCEPT ![i] = "failed"]
  /\ UNCHANGED <<images, images_index, s_size, slide_parts, an_pc, j, prompt,
                 resp, requests, sleeps, before, an_err>>
  /\ UNCHANGED <<qvars, pvars, mvars>>

RECURSIVE AssignParts(_, _)
\* lines 246-248: for _, part := range Parts { slide.Content = fmt.Sprintln(part) }
AssignParts(content, parts) ==
  IF parts = <<>> THEN content
  ELSE AssignParts(Sprintln(Head(parts)), Tail(parts))

\* lines 245-248: the call returned a response with m text parts
TaskRespond(i, m) ==
  /\ task[i] = "sent"
  /\ resp' = [resp EXCEPT ![i] = Parts(m)]
  /\ slides' = [slides EXCEPT ![i].Content = AssignParts(@, Parts(m))]
  /\ task' = [task EXCEPT ![i] = "ok"]
  /\ UNCHANGED <<images, images_index, s_size, slide_parts, an_pc, j, prompt,
                 requests, sleeps, before, an_err>>
  /\ UNCHANGED <<qvars, pvars, mvars>>

\* a mutant of Join: wg.Wait() returns although goroutines are running
JoinEarly ==
  /\ an_pc = "wait"
  /\ an_pc' = "joined"
  /\ UNCHANGED <<slides, images, images_index, s_size, slide_parts, j, task,
                 prompt, resp, requests, sleeps, before, an_err>>
  /\ UNCHANGED <<qvars, pvars, mvars>>

\* a mutant of Join: wg.Done is called by the goroutines that succeed only
JoinAllOk ==
  /\ an_pc = "wait"
  /\ \A i \in BatchSet(j) : task[i] = "ok"
  /\ an_pc' = "joined"
  /\ UNCHANGED <<slides, images, images_index, s_size, slide_parts, j, task,
                 prompt, resp, requests, sleeps, before, an_err>>
  /\ UNCHANGED <<qvars, pvars, mvars>>

\* line 251: wg.Wait() returns once every goroutine of the batch called wg.Done
Join ==
  /\ an_pc = "wait"
  /\ \A i \in BatchSet(j) : task[i] \in {"ok", "failed"}
  /\ an_pc' = "joined"
  /\ UNCHANGED <<slides, images, images_index, s_size, slide_parts, j, task,
                 prompt, resp, requests, sleeps, before, an_err>>
  /\ UNCHANGED <<qvars, pvars, mvars>>

\* a mutant of SleepDue: a sleep after every batch
SleepAlways(n, size, b, nparts) == TRUE

\* line 252: len(slides) > s_size && j != len(slide_parts)-1, b counted from 1
SleepDue(n, size, b, nparts) == n > size /\ b # nparts

\* lines 252-254: time.Sleep(62 * time.Second), or not
Sleep ==
  /\ an_pc = "joined"
  /\ \/ /\ SleepDue(Len(slides), s_size, j, Len(slide_parts))
        /\ sleeps' = sleeps + 1
     \/ /\ ~SleepDue(Len(slides), s_size, j, Len(slide_parts))
        /\ sleeps' = sleeps
  /\ an_pc' = "attach"
  /\ UNCHANGED <<slides, images, images_index, s_size, slide_parts, j, task,
                 prompt, resp, requests, before, an_err>>
  /\ UNCHANGED <<qvars, pvars, mvars>>

\* slices.Contains(images_index, v)
IndexRecorded(idx, v) == \E k \in 1..Len(idx) : idx[k] = v

RECURSIVE ReattachFrom(_, _, _, _, _)
\* lines 256-262 from slide i on (i counted from 1, so the code's i+1 is i),
\* image_counter counted from 0
ReattachFrom(sl, imgs, idx, i, image_counter) ==
  IF i > Len(sl) THEN sl
  ELSE IF IndexRecorded(idx, i)
  THEN ReattachFrom([sl EXCEPT ![i].Content = @ \o Sprintln(imgs[image_counter + 1])],
                    imgs, idx, i + 1, image_counter + 1)
  ELSE ReattachFrom(sl, imgs, idx, i + 1, image_counter)

\* lines 255-262: the reattachment pass over all slides
ReattachPass(sl, imgs, idx) == ReattachFrom(sl, imgs, idx, 1, 0)

\* lines 255-265: the pass, then the next batch or return slides, nil
Reattach ==
  /\ an_pc = "attach"
  /\ before' = [i \in DOMAIN slides |-> slides[i].Content]
  /\ slides' = ReattachPass(slides, images, images_index)
  /\ \/ /\ j < Len(slide_parts)
        /\ j' = j + 1
        /\ an_pc' = "spawn"
        /\ an_err' = an_err
     \/ /\ j = Len(slide_parts)
        /\ j' = j
        /\ an_pc' = "done"
        /\ an_err' = "nil"
  /\ UNCHANGED <<images, images_index, s_size, slide_parts, task, prompt, resp,
                 requests, sleeps>>
  /\ UNCHANGED <<qvars, pvars, mvars>>

Init ==
  /\ QiitaOff
  /\ ParseOff
  /\ MarpOff
  /\ ver = "indev"
  /\ \E n \in 0..MaxSlides :
       \E len \in 0..(IF n = 0 THEN 0 ELSE MaxImages) :
         \E idx \in NonDecreasing(len, 1, n) :
           AnalyzeCalled(n, BatchSize, idx)

Next ==
  \/ Partition
  \/ StartBatch
  \/ \E i \in DOMAIN task : TaskSend(i)
  \/ \E i \in DOMAIN task : TaskFail(i)
  \/ \E i \in DOMAIN task : \E m \in PartCounts : TaskRespond(i, m)
  \/ Join
  \/ Sleep
  \/ Reattach

\* a summarization run with batches of BatchSize
Spec == Init /\ [][Next]_vars

BatchInit ==
  /\ QiitaOff
  /\ ParseOff
  /\ MarpOff
  /\ ver = "indev"
  /\ MarpOff
  /\ ver = "indev"
  /\ ParseOff
  /\ \E n \in 0..MaxBatchSlides :
       \E size \in {s_size_indev, s_size_root} :
         AnalyzeCalled(n, size, <<>>)

\* the partitioning alone, with the batch sizes of the code
SpecBatch == BatchInit /\ [][Partition]_vars

\* a summarization run of at most MaxLiveSlides slides
LiveInit ==
  /\ QiitaOff
  /\ ParseOff
  /\ MarpOff
  /\ ver = "indev"
  /\ \E n \in 0..MaxLiveSlides :
       \E len \in 0..(IF n = 0 THEN 0 ELSE 1) :
         \E idx \in NonDecreasing(len, 1, n) :
           AnalyzeCalled(n, BatchSize, idx)

\* line 240: model.GenerateContent returns, with an error or with a response
RequestReturns(i) ==
  /\ i \in DOMAIN task
  /\ TaskFail(i) \/ \E m \in PartCounts : TaskRespond(i, m)

\* the control thread runs on when it can (nothing in lines 209-265 blocks but
\* wg.Wait and time.Sleep), the scheduler runs every goroutine that was
\* started, and every request eventually returns
Fairness ==
  /\ WF_vars(Partition)
  /\ WF_vars(StartBatch)
  /\ WF_vars(Join)
  /\ WF_vars(Sleep)
  /\ WF_vars(Reattach)
  /\ \A i \in 1..MaxLiveSlides : WF_vars(i \in DOMAIN task /\ TaskSend(i))
  /\ \A i \in 1..MaxLiveSlides : WF_vars(RequestReturns(i))

\* a summarization run in which every request returns
SpecLive == LiveInit /\ [][Next]_vars /\ Fairness


\* ------------------------------------------------------------ Slide Segmenter
\* A node of the parsed tree.  kind is n.Kind(); level is Heading.Level; text is
\* what the node's Text(content) returns (the literal of a Text node, the code of
\* a code block, the markup of raw HTML); dest is Image.Destination,
\* Link.Destination or AutoLink.URL; size counts the node and its descendants.
Node(kind, level, text, dest, children) ==
  <<[kind |-> kind, level |-> level, text |-> text, dest |-> dest,
     size |-> 1 + Len(children)]>> \o children

TextNode(t) == Node("Text", 0, t, "", <<>>)
Heading(level, children) == Node("Heading", level, <<>>, "", children)
Paragraph(children) == Node("Paragraph", 0, <<>>, "", children)
\* goldmark keeps an image's alt text and a link's text as Text children
Image(dest, children) == Node("Image", 0, <<>>, dest, children)
Link(dest, children) == Node("Link", 0, <<>>, dest, children)
AutoLink(url) == Node("AutoLink", 0, <<>>, url, <<>>)
\* a code span's Text is the text of its Text children
CodeSpan(t) == Node("CodeSpan", 0, t, "", TextNode(t))
RawHTML(t) == Node("RawHTML", 0, t, "", <<>>)
HTMLBlock(t) == Node("HTMLBlock", 0, t, "", <<>>)
CodeBlock(t) == Node("CodeBlock", 0, t, "", <<>>)
FencedCodeBlock(t) == Node("FencedCodeBlock", 0, t, "", <<>>)
ListOf(children) == Node("List", 0, <<>>, "", children)
ListItem(children) == Node("ListItem", 0, <<>>, "", children)
TextBlock(children) == Node("TextBlock", 0, <<>>, "", children)
Document(children) == Node("Document", 0, <<>>, "", children)

\* The pieces of documents: each is a run of sibling blocks below the root.
Fragments ==
  { Heading(1, TextNode(<<"A">>)),
    Heading(2, TextNode(<<"B">>)),
    Heading(5, TextNode(<<"E">>)),
    Heading(1, <<>>),
    Heading(3, TextNode(<<"A">>) \o TextNode(<<"B">>)),
    Paragraph(TextNode(<<"x">>)),
    Paragraph(TextNode(<<"y">>) \o TextNode(<<"z">>)),
    Paragraph(TextNode(<<":", ":", ":", "note">>) \o TextNode(<<"w">>)
                \o TextNode(<<":", ":", ":">>)),
    Paragraph(Image("u1", TextNode(<<"alt">>)) \o CodeSpan(<<"k">>) \o RawHTML(<<"<br>">>)),
    Paragraph(Link("d", TextNode(<<"l">>)) \o AutoLink("w") \o TextNode(<<"t">>)),
    ListOf(ListItem(TextBlock(TextNode(<<"i">>)))),
    FencedCodeBlock(<<"f">>) \o CodeBlock(<<"c">>) \o HTMLBlock(<<"<p>">>) }

RECURSIVE Bodies(_)
\* the runs of at most n fragments
Bodies(n) ==
  IF n = 0 THEN {<<>>}
  ELSE Bodies(n - 1) \cup {f \o b : f \in Fragments, b \in Bodies(n - 1)}

\* the documents segmented
Documents == {Document(b) : b \in Bodies(MaxBlocks)}

RECURSIVE ExtractFrom(_, _, _)
\* extractText's walk over the nodes p..last of d
ExtractFrom(d, p, last) ==
  IF p > last THEN <<>>
  ELSE (IF d[p].kind \in {"Text", "String"} THEN d[p].text ELSE <<>>)
       \o ExtractFrom(d, p + 1, last)

\* extractText(n, content) for the node at position p of d
extractText(d, p) == ExtractFrom(d, p, p + d[p].size - 1)

\* a mutant of IsTitleLevel: every heading opens a slide
IsTitleLevelAny(level) == level <= 6

\* heading.Level <= 4
IsTitleLevel(level) == level <= 4

\* count's first value: 0 (indev line 83), -1 (root line 86)
CountStart(v) == IF v = "indev" THEN 0 ELSE -1

\* parseMarkdown is called on the document d by version v
ParseCalled(v, d) ==
  /\ ver = v
  /\ doc = d
  /\ pos = 1
  /\ p_pc = "walk"
  /\ currentSlide = <<>>
  /\ count = CountStart(v)
  /\ afterOption = FALSE
  /\ slides = <<>>

\* the walk is about to enter a node of kind k
Entering(kinds) ==
  /\ p_pc = "walk"
  /\ pos <= Len(doc)
  /\ doc[pos].kind \in kinds

\* currentSlide.Content += piece, if currentSlide != nil
AppendContent(piece) ==
  IF currentSlide = <<>> THEN <<>>
  ELSE <<[currentSlide[1] EXCEPT !.Content = @ \o piece]>>

\* case ast.KindHeading
VisitHeading ==
  /\ Entering({"Heading"})
  /\ IF IsTitleLevel(doc[pos].level)
     THEN /\ slides' = slides \o currentSlide
          /\ currentSlide' = <<[Title |-> extractText(doc, pos), Content |-> <<>>]>>
          /\ count' = count + 1
     ELSE UNCHANGED <<slides, currentSlide, count>>
  /\ afterOption' = IF ver = "indev" THEN TRUE ELSE afterOption
  /\ pos' = pos + 1
  /\ UNCHANGED <<ver, doc, p_pc, images, images_index>>
  /\ UNCHANGED <<qvars, aonly, mvars>>

\* the kinds of the text case: TextBlock and Text, and Paragraph in root only
TextKinds(v) ==
  IF v = "indev" THEN {"TextBlock", "Text"} ELSE {"Paragraph", "TextBlock", "Text"}

\* textContent of the text case: indev reads it only when the flag is down, and
\* then leaves the case at once; root reads "" when the flag is up and goes on
VisitText ==
  /\ Entering(TextKinds(ver))
  /\ LET flagged == afterOption
         textContent == IF flagged THEN <<>> ELSE extractText(doc, pos)
         qiita == isQiitaBlock(textContent)
     IN IF ver = "indev" /\ flagged
        THEN /\ currentSlide' = currentSlide
             /\ pos' = pos + 1
        ELSE IF qiita
        THEN /\ currentSlide' = AppendContent(extractTextFromQiitaBlock(textContent) \o <<NL>>)
             /\ pos' = pos + doc[pos].size
        ELSE /\ currentSlide' = AppendContent(textContent \o <<NL>>)
             /\ pos' = pos + 1
  /\ afterOption' = FALSE
  /\ UNCHANGED <<ver, doc, p_pc, count, slides, images, images_index>>
  /\ UNCHANGED <<qvars, aonly, mvars>>

\* case ast.KindRawHTML
VisitRawHTML ==
  /\ Entering({"RawHTML"})
  /\ currentSlide' = AppendContent(<<NL>> \o doc[pos].text)
  /\ pos' = pos + 1
  /\ UNCHANGED <<ver, doc, p_pc, count, afterOption, slides, images, images_index>>
  /\ UNCHANGED <<qvars, aonly, mvars>>

\* case ast.KindHTMLBlock
VisitHTMLBlock ==
  /\ Entering({"HTMLBlock"})
  /\ currentSlide' = AppendContent(<<NL>> \o doc[pos].text \o <<NL>>)
  /\ pos' = pos + 1
  /\ UNCHANGED <<ver, doc, p_pc, count, afterOption, slides, images, images_index>>
  /\ UNCHANGED <<qvars, aonly, mvars>>

\* case ast.KindListItem
VisitListItem ==
  /\ Entering({"ListItem"})
  /\ afterOption' = IF currentSlide # <<>> THEN TRUE ELSE afterOption
  /\ pos' = pos + 1
  /\ UNCHANGED <<ver, doc, p_pc, count, currentSlide, slides, images, images_index>>
  /\ UNCHANGED <<qvars, aonly, mvars>>

\* the code between two lines of three backquotes, a newline before and after
Fenced(code) == <<NL, BQ3, NL>> \o code \o <<NL, BQ3, NL>>

\* case ast.KindCodeBlock
VisitCodeBlock ==
  /\ Entering({"CodeBlock"})
  /\ currentSlide' = AppendContent(Fenced(doc[pos].text))
  /\ pos' = pos + 1
  /\ UNCHANGED <<ver, doc, p_pc, count, afterOption, slides, images, images_index>>
  /\ UNCHANGED <<qvars, aonly, mvars>>

\* case ast.KindCodeSpan
VisitCodeSpan ==
  /\ Entering({"CodeSpan"})
  /\ currentSlide' = AppendContent(<<BQ>> \o doc[pos].text \o <<BQ, NL>>)
  /\ pos' = pos + 1
  /\ UNCHANGED <<ver, doc, p_pc, count, afterOption, slides, images, images_index>>
  /\ UNCHANGED <<qvars, aonly, mvars>>

\* case ast.KindFencedCodeBlock
VisitFencedCodeBlock ==
  /\ Entering({"FencedCodeBlock"})
  /\ currentSlide' = AppendContent(Fenced(doc[pos].text))
  /\ pos' = pos + 1
  /\ UNCHANGED <<ver, doc, p_pc, count, afterOption, slides, images, images_index>>
  /\ UNCHANGED <<qvars, aonly, mvars>>

\* a mutant of VisitImage: the index is recorded, the markup is not
VisitImageIndexOnly ==
  /\ Entering({"Image"})
  /\ IF currentSlide # <<>>
     THEN /\ images' = images
          /\ images_index' = Append(images_index, count)
          /\ afterOption' = IF ver = "indev" THEN TRUE ELSE afterOption
     ELSE UNCHANGED <<images, images_index, afterOption>>
  /\ pos' = pos + 1
  /\ UNCHANGED <<ver, doc, p_pc, count, currentSlide, slides>>
  /\ UNCHANGED <<qvars, aonly, mvars>>

\* case ast.KindImage: the image is put aside with the heading count
VisitImage ==
  /\ Entering({"Image"})
  /\ IF currentSlide # <<>>
     THEN /\ images' = Append(images, ImageMarkup(doc[pos].dest))
          /\ images_index' = Append(images_index, count)
          /\ afterOption' = IF ver = "indev" THEN TRUE ELSE afterOption
     ELSE UNCHANGED <<images, images_index, afterOption>>
  /\ pos' = pos + 1
  /\ UNCHANGED <<ver, doc, p_pc, count, currentSlide, slides>>
  /\ UNCHANGED <<qvars, aonly, mvars>>

\* case ast.KindLink: fmt.Sprintf("\n[%s](%s)\n", linkText, linkDest)
VisitLink ==
  /\ Entering({"Link"})
  /\ currentSlide' = AppendContent(<<NL, "[">> \o extractText(doc, pos)
                                     \o <<"](", doc[pos].dest, ")", NL>>)
  /\ afterOption' = IF ver = "indev" /\ currentSlide # <<>> THEN TRUE ELSE afterOption
  /\ pos' = pos + 1
  /\ UNCHANGED <<ver, doc, p_pc, count, slides, images, images_index>>
  /\ UNCHANGED <<qvars, aonly, mvars>>

\* case ast.KindAutoLink: a link with a fixed text ("[LINK]" stands for the
\* code's Japanese literal)
VisitAutoLink ==
  /\ Entering({"AutoLink"})
  /\ currentSlide' = AppendContent(<<NL, "[LINK](", doc[pos].dest, ")", NL>>)
  /\ afterOption' = IF ver = "indev" /\ currentSlide # <<>> THEN TRUE ELSE afterOption
  /\ pos' = pos + 1
  /\ UNCHANGED <<ver, doc, p_pc, count, slides, images, images_index>>
  /\ UNCHANGED <<qvars, aonly, mvars>>

\* the kinds the switch has a case for
CasedKinds(v) ==
  TextKinds(v) \cup {"Heading", "RawHTML", "HTMLBlock", "ListItem", "CodeBlock",
                     "CodeSpan", "FencedCodeBlock", "Image", "Link", "AutoLink"}

\* any other kind (Document, List, Paragraph in indev): the walk goes on
VisitOther ==
  /\ p_pc = "walk"
  /\ pos <= Len(doc)
  /\ doc[pos].kind \notin CasedKinds(ver)
  /\ pos' = pos + 1
  /\ UNCHANGED <<ver, doc, p_pc, count, afterOption, currentSlide, slides,
                 images, images_index>>
  /\ UNCHANGED <<qvars, aonly, mvars>>

\* after the walk: the open slide is appended and slides returned
ParseReturn ==
  /\ p_pc = "walk"
  /\ pos > Len(doc)
  /\ slides' = slides \o currentSlide
  /\ p_pc' = "done"
  /\ UNCHANGED <<ver, doc, pos, count, afterOption, currentSlide, images, images_index>>
  /\ UNCHANGED <<qvars, aonly, mvars>>

\* analyzeContentWithGemini is not running
AnalyzeIdle ==
  /\ s_size = 0
  /\ slide_parts = <<>>
  /\ an_pc = "off"
  /\ j = 0
  /\ task = <<>>
  /\ prompt = <<>>
  /\ resp = <<>>
  /\ requests = <<>>
  /\ sleeps = 0
  /\ before = <<>>
  /\ an_err = "none"

\* a fresh process segments one document
ParseInit ==
  /\ QiitaOff
  /\ AnalyzeIdle
  /\ MarpOff
  /\ images = <<>>
  /\ images_index = <<>>
  /\ \E v \in {"indev", "root"} : \E d \in Documents : ParseCalled(v, d)

ParseNext ==
  \/ VisitHeading
  \/ VisitText
  \/ VisitRawHTML
  \/ VisitHTMLBlock
  \/ VisitListItem
  \/ VisitCodeBlock
  \/ VisitCodeSpan
  \/ VisitFencedCodeBlock
  \/ VisitImage
  \/ VisitLink
  \/ VisitAutoLink
  \/ VisitOther
  \/ ParseReturn

\* parseMarkdown on one document
SpecParse == ParseInit /\ [][ParseNext]_vars


\* ------------------------------------------------------------ Marp Renderer
\* styles.ThemeList (package md2MarpAPI/styles): the front-matter lines of a
\* theme, between the line "marp: true" and the closing "---"
ThemeList == << <<NL>>, <<NL, "theme: gaia", NL>> >>

\* what convertToMarp writes before the loop: the front matter, and in indev
\* the theme, the deck title's heading and the title slide's style
MarpHeader(v, title, style) ==
  IF v = "indev"
  THEN <<"-", "-", "-", NL, "marp: true">> \o ThemeList[style + 1]
       \o <<"-", "-", "-", NL, "#", SP>> \o title \o <<NL>>
       \o <<"<style scoped>section{font-size:50px;text-align:center}</style>">>
  ELSE <<"-", "-", "-", NL, "marp: true", NL>>

\* a mutant of MarpSlide: a slide without content is left out
MarpSlideSkipEmpty(v, slide) ==
  IF slide.Content = <<>> THEN <<>>
  ELSE (IF v = "indev" THEN <<NL>> ELSE <<>>) \o <<"-", "-", "-", NL>>
       \o <<"#", SP>> \o slide.Title \o <<NL, NL>> \o slide.Content \o <<NL>>

\* what one iteration of convertToMarp's loop writes: the separator
\* ("\n---\n" in indev, "---\n" in root), "# %s\n\n" and "%s\n"
MarpSlide(v, slide) ==
  (IF v = "indev" THEN <<NL>> ELSE <<>>) \o <<"-", "-", "-", NL>>
  \o <<"#", SP>> \o slide.Title \o <<NL, NL>> \o slide.Content \o <<NL>>

\* the titles and contents of the slides rendered
MarpTitles == {<<>>, <<"A">>, <<"B">>}
MarpContents == {<<>>, <<"x", NL>>, <<"x">>, <<"#", SP, "h", NL>>}
MarpSlides == [Title : MarpTitles, Content : MarpContents]

RECURSIVE SlideSeqs(_)
\* the slide sequences of length at most n
SlideSeqs(n) ==
  IF n = 0 THEN {<<>>}
  ELSE SlideSeqs(n - 1) \cup {<<sl>> \o ss : sl \in MarpSlides,
                                ss \in {t \in SlideSeqs(n - 1) : Len(t) = n - 1}}

\* convertToMarp is called by version v
MarpCalled(v, ss, title, style) ==
  /\ ver = v
  /\ slides = ss
  /\ m_pc = "header"
  /\ m_title = title
  /\ m_style = style
  /\ m_i = 1
  /\ marpBuilder = <<>>

\* the writes before the loop
MarpWriteHeader ==
  /\ m_pc = "header"
  /\ marpBuilder' = marpBuilder \o MarpHeader(ver, m_title, m_style)
  /\ m_pc' = "loop"
  /\ UNCHANGED <<m_title, m_style, m_i>>
  /\ UNCHANGED <<qvars, avars, pvars>>

\* one iteration of the loop over slides
MarpWriteSlide ==
  /\ m_pc = "loop"
  /\ m_i <= Len(slides)
  /\ marpBuilder' = marpBuilder \o MarpSlide(ver, slides[m_i])
  /\ m_i' = m_i + 1
  /\ UNCHANGED <<m_pc, m_title, m_style>>
  /\ UNCHANGED <<qvars, avars, pvars>>

\* return marpBuilder.String()
MarpReturn ==
  /\ m_pc = "loop"
  /\ m_i > Len(slides)
  /\ m_pc' = "done"
  /\ UNCHANGED <<m_title, m_style, m_i, marpBuilder>>
  /\ UNCHANGED <<qvars, avars, pvars>>

\* the deck titles: none, and one as generateTitle returns it (a line)
DeckTitles == {<<>>, <<"D", NL>>}

\* convertToMarp is called on a slide sequence; root has no title and no style
MarpInit ==
  /\ QiitaOff
  /\ ParseOff
  /\ AnalyzeIdle
  /\ images = <<>>
  /\ images_index = <<>>
  /\ \E ss \in SlideSeqs(MaxMarpSlides) :
       \/ \E title \in DeckTitles : \E style \in 0..(Len(ThemeList) - 1) :
            MarpCalled("indev", ss, title, style)
       \/ MarpCalled("root", ss, <<>>, 0)

MarpNext == MarpWriteHeader \/ MarpWriteSlide \/ MarpReturn

\* convertToMarp on one slide sequence
SpecMarp == MarpInit /\ [][MarpNext]_vars


\* ------------------------------------------------------------ md2s
\* The pieces of the documents converted: a heading, a paragraph with an image,
\* and a run of blocks of the other kinds.
ConvFragments ==
  { Heading(1, TextNode(<<"A">>)),
    Paragraph(Image("u1", TextNode(<<"alt">>)) \o CodeSpan(<<"k">>) \o RawHTML(<<"<br>">>)),
    Paragraph(Link("d", TextNode(<<"l">>)) \o AutoLink("w") \o TextNode(<<"t">>))
      \o ListOf(ListItem(TextBlock(TextNode(<<"i">>))))
      \o FencedCodeBlock(<<"f">>) \o CodeBlock(<<"c">>) \o HTMLBlock(<<"<p>">>) }

RECURSIVE ConvBodies(_)
\* the runs of at most n of these pieces
ConvBodies(n) ==
  IF n = 0 THEN {<<>>}
  ELSE ConvBodies(n - 1) \cup {f \o b : f \in ConvFragments, b \in ConvBodies(n - 1)}

\* the documents converted
ConvDocs == {Document(b) : b \in ConvBodies(MaxConvBlocks)}

\* line 304: slides, err := parseMarkdown(content), in a process whose lists
\* images and images_index are what earlier calls left
Md2sCalled(d) ==
  /\ doc' = d
  /\ pos' = 1
  /\ p_pc' = "walk"
  /\ currentSlide' = <<>>
  /\ count' = CountStart(ver)
  /\ afterOption' = FALSE
  /\ slides' = <<>>
  /\ UNCHANGED <<ver, images, images_index>>

\* lines 309-311: debug is false: analyzeContentWithGemini(slides)
Md2sAnalyze ==
  /\ p_pc = "done"
  /\ an_pc = "off"
  /\ m_pc = "off"
  /\ s_size' = BatchSize
  /\ slide_parts' = <<>>
  /\ an_pc' = "partition"
  /\ j' = 0
  /\ task' = [i \in 1..Len(slides) |-> "none"]
  /\ prompt' = [i \in 1..Len(slides) |-> <<>>]
  /\ resp' = [i \in 1..Len(slides) |-> <<>>]
  /\ requests' = [i \in 1..Len(slides) |-> 0]
  /\ sleeps' = 0
  /\ before' = [i \in 1..Len(slides) |-> <<>>]
  /\ an_err' = "none"
  /\ UNCHANGED <<slides, images, images_index>>
  /\ UNCHANGED <<qvars, pvars, mvars>>

\* lines 317 and 319: convertToMarp on the analyzed slides, or (debug) on the
\* segmented ones; title and style are md2s's parameters, read here only
Md2sConvert ==
  /\ p_pc = "done"
  /\ an_pc \in {"off", "done"}
  /\ m_pc = "off"
  /\ m_pc' = "header"
  /\ \E title \in DeckTitles : m_title' = title
  /\ \E style \in 0..(Len(ThemeList) - 1) : m_style' = style
  /\ m_i' = 1
  /\ marpBuilder' = <<>>
  /\ UNCHANGED <<qvars, avars, pvars>>

\* line 321: md2s returns; the process calls md2s for another document (as long
\* as the lists hold at most MaxCarried images)
Md2sAgain ==
  /\ m_pc = "done"
  /\ Len(images) <= MaxCarried
  /\ \E d \in ConvDocs : Md2sCalled(d)
  /\ s_size' = 0
  /\ slide_parts' = <<>>
  /\ an_pc' = "off"
  /\ j' = 0
  /\ task' = <<>>
  /\ prompt' = <<>>
  /\ resp' = <<>>
  /\ requests' = <<>>
  /\ sleeps' = 0
  /\ before' = <<>>
  /\ an_err' = "none"
  /\ m_pc' = "off"
  /\ m_title' = <<>>
  /\ m_style' = 0
  /\ m_i' = 0
  /\ marpBuilder' = <<>>
  /\ UNCHANGED qvars

\* a fresh process calls md2s (indev)
Md2sInit ==
  /\ QiitaOff
  /\ AnalyzeIdle
  /\ MarpOff
  /\ images = <<>>
  /\ images_index = <<>>
  /\ \E d \in ConvDocs : ParseCalled("indev", d)

Md2sNext ==
  \/ ParseNext
  \/ Md2sAnalyze
  \/ Next
  \/ Md2sConvert
  \/ MarpNext
  \/ Md2sAgain

\* a process that converts documents one after the other
SpecMd2s == Md2sInit /\ [][Md2sNext]_vars


\* ------------------------------------------------------------ C1
\* C1: once slide_parts is built, no batch is longer than the batch size and the
\* batches, concatenated in batch order, are exactly the slide pointers 1..n in
\* order (so they are contiguous, do not overlap and miss no slide); checked for
\* the batch sizes 13 and 15 and every n up to MaxBatchSlides, n = 0 included.
C1_BatchesPartitionSlides ==
  an_pc # "partition" =>
    /\ Len(slide_parts) >= 1
    /\ \A b \in 1..Len(slide_parts) : Len(slide_parts[b]) <= s_size
    /\ Concat(slide_parts) = [i \in 1..Len(slides) |-> i]

\* C1's case: one slide more than the batch size gives a full batch and a batch
\* of one
C1_Witness ==
  /\ an_pc = "spawn"
  /\ Len(slides) = s_size + 1
  /\ Len(slide_parts) = 2
  /\ Len(slide_parts[1]) = s_size
  /\ slide_parts[2] = <<s_size + 1>>

\* ------------------------------------------------------------ helpers of the claims
\* the batch that holds slide i
BatchOf(i) == CHOOSE b \in 1..Len(slide_parts) : i \in BatchSet(b)

\* every request of batch b is over and wg.Wait() has returned for it
BatchJoined(b) == b < j \/ (b = j /\ an_pc \in {"joined", "attach", "done"})

\* slide i is in the running batch and the batch's reattachment pass has not run
InBatchBeforePass(i) == an_pc \in {"wait", "joined", "attach"} /\ i \in BatchSet(j)

\* a reattachment pass has just ended
AfterPass == (an_pc = "spawn" /\ j > 1) \/ an_pc = "done"

RECURSIVE OwnedFrom(_, _)
\* the markup, as appended, of the images from the k-th on recorded with index i
OwnedFrom(i, k) ==
  IF k > Len(images) THEN <<>>
  ELSE (IF images_index[k] = i THEN Sprintln(images[k]) ELSE <<>>) \o OwnedFrom(i, k + 1)

\* ------------------------------------------------------------ C2
\* C2 as stated: whenever a slide's content holds the markup of an image, all
\* requests of the batch that holds the slide have completed (its wg.Wait()
\* has returned).
C2_ImageOnlyAfterOwnBatch ==
  an_pc \notin {"off", "partition"} =>
    \A i \in 1..Len(slides) : \A k \in 1..Len(images) :
      Contains(slides[i].Content, images[k]) => BatchJoined(BatchOf(i))

\* ------------------------------------------------------------ C3
RECURSIVE HeadingTitles(_, _)
\* the extracted texts of the headings of level 1-4 of d from position p on
HeadingTitles(d, p) ==
  IF p > Len(d) THEN <<>>
  ELSE (IF d[p].kind = "Heading" /\ d[p].level \in 1..4
        THEN <<extractText(d, p)>> ELSE <<>>) \o HeadingTitles(d, p + 1)

\* C3: parseMarkdown returns one slide per heading of level 1-4, in document
\* order, titled with the heading's extracted text (so none for a level 5-6
\* heading, none for a document without qualifying heading, one for a document
\* with one); and as long as the walk has entered no qualifying heading there is
\* no open slide, so what precedes the first qualifying heading goes nowhere.
C3_OneSlidePerHeading ==
  /\ p_pc = "done" =>
       [i \in 1..Len(slides) |-> slides[i].Title] = HeadingTitles(doc, 1)
  /\ (p_pc = "walk" /\ ~\E p \in 1..(pos - 1) :
                           doc[p].kind = "Heading" /\ doc[p].level \in 1..4) =>
       (currentSlide = <<>> /\ slides = <<>>)

\* C3's case: a document with two qualifying headings and a level-5 heading
\* between them was segmented into two slides
C3_Witness ==
  /\ p_pc = "done"
  /\ Len(slides) = 2
  /\ slides[1].Title # slides[2].Title
  /\ \E p \in 1..Len(doc) : doc[p].kind = "Heading" /\ doc[p].level = 5

\* ------------------------------------------------------------ C4
\* d is made only of headings of level 1-4 and of paragraphs of one line of
\* plain text
PlainDoc(d) ==
  \A p \in 2..Len(d) :
    \/ d[p].kind = "Heading" /\ d[p].level \in 1..4
    \/ d[p].kind = "Paragraph" /\ d[p].size = 2
    \/ d[p].kind = "Text" /\ ~Contains(d[p].text, <<":", ":", ":">>)

RECURSIVE ParagraphsFrom(_, _)
\* the texts of the paragraphs from block p up to the next heading, each
\* followed by one newline
ParagraphsFrom(d, p) ==
  IF p > Len(d) \/ d[p].kind = "Heading" THEN <<>>
  ELSE (IF d[p].kind = "Paragraph" THEN extractText(d, p) \o <<NL>> ELSE <<>>)
       \o ParagraphsFrom(d, p + d[p].size)

RECURSIVE ExpectedContents(_, _)
\* per heading from block p on, the texts of the paragraphs under it
ExpectedContents(d, p) ==
  IF p > Len(d) THEN <<>>
  ELSE (IF d[p].kind = "Heading" THEN <<ParagraphsFrom(d, p + d[p].size)>> ELSE <<>>)
       \o ExpectedContents(d, p + d[p].size)

\* C4 as stated: for a document of level 1-4 headings and plain-text
\* paragraphs, every slide's content is the texts of the paragraphs under its
\* heading, in order, each followed by one newline: no heading text in it, no
\* paragraph twice, none missing.
C4_ContentIsParagraphTexts ==
  (p_pc = "done" /\ PlainDoc(doc)) =>
    [i \in 1..Len(slides) |-> slides[i].Content] = ExpectedContents(doc, 2)

\* ------------------------------------------------------------ C5
\* C5 as stated: after a reattachment pass every slide has received exactly the
\* markup of the images recorded with its own 1-based position, all of them and
\* in recorded order, and nothing else.
C5_EachSlideGetsItsOwnImages ==
  AfterPass =>
    \A i \in 1..Len(slides) : slides[i].Content = before[i] \o OwnedFrom(i, 1)

\* ------------------------------------------------------------ C6
\* C6: a slide whose request failed holds, from the failure to the end of its
\* batch's join, the content that its request was issued with; a slide whose
\* request succeeded holds text of its own response; no slide is ever requested
\* twice; and when analyzeContentWithGemini returns, every slide of every batch
\* has been requested once and answered, and the error returned is nil.
C6_FailureIsLocal ==
  /\ \A i \in 1..Len(slides) :
       /\ requests[i] <= 1
       /\ (InBatchBeforePass(i) /\ task[i] = "failed") => slides[i].Content = prompt[i]
       /\ (InBatchBeforePass(i) /\ task[i] = "ok") =>
             Contains(slides[i].Content, resp[i][Len(resp[i])])
  /\ an_pc = "done" =>
       /\ an_err = "nil"
       /\ \A i \in 1..Len(slides) : requests[i] = 1 /\ task[i] \in {"ok", "failed"}

\* C6's case: the run returned although a request failed, a request of the same
\* batch succeeded and so did one of a later batch
C6_Witness ==
  /\ an_pc = "done"
  /\ \E i, k, l \in 1..Len(slides) :
       /\ task[i] = "failed"
       /\ task[k] = "ok"
       /\ task[l] = "ok"
       /\ BatchOf(i) = BatchOf(k)
       /\ BatchOf(l) > BatchOf(i)

\* ------------------------------------------------------------ C7
\* C7: a goroutine of batch b exists only when every request of every earlier
\* batch is over and b - 1 sleeps have been taken; the number of sleeps taken is
\* always the number of joined batches that are not the last one, so there is
\* one sleep between two consecutive batches and none after the last batch.
C7_OneSleepBetweenBatches ==
  an_pc \notin {"off", "partition"} =>
    /\ \A i \in 1..Len(slides) :
         task[i] # "none" =>
           /\ sleeps >= BatchOf(i) - 1
           /\ \A k \in 1..Len(slides) :
                BatchOf(k) < BatchOf(i) => task[k] \in {"ok", "failed"}
    /\ an_pc \in {"spawn", "wait", "joined"} => sleeps = j - 1
    /\ an_pc = "attach" => sleeps = (IF j < Len(slide_parts) THEN j ELSE j - 1)
    /\ an_pc = "done" => sleeps = Len(slide_parts) - 1

\* C7's case: a run of three batches has returned after two sleeps
C7_Witness ==
  /\ an_pc = "done"
  /\ Len(slide_parts) = 3
  /\ sleeps = 2

\* ------------------------------------------------------------ C9
\* Re-reading a rendered document: its lines, the front matter set aside, then
\* every ATX heading line (one to six '#', then a space or the line's end) and
\* every line of text underlined by a "---" line (a setext heading).
Rule == <<"-", "-", "-">>

RECURSIVE HashRun(_)
\* how many '#' a line starts with
HashRun(line) ==
  IF line # <<>> /\ Head(line) = "#" THEN 1 + HashRun(Tail(line)) ELSE 0

IsATX(line) ==
  /\ HashRun(line) \in 1..6
  /\ Len(line) = HashRun(line) \/ line[HashRun(line) + 1] = SP

ATXTitle(line) == TrimSpace(SubSeq(line, HashRun(line) + 1, Len(line)))

\* a line of HTML: it opens with a tag
IsHtml(line) ==
  line # <<>> /\ Head(line) \in {"<style scoped>section{font-size:50px;text-align:center}</style>"}

\* a line of paragraph text
IsPara(line) == line # <<>> /\ ~IsATX(line) /\ line # Rule /\ ~IsHtml(line)

RECURSIVE HeadingsFrom(_, _, _)
\* the headings of the lines ls from line k on; first is the first line read
HeadingsFrom(ls, k, first) ==
  IF k > Len(ls) THEN <<>>
  ELSE (IF IsATX(ls[k]) THEN <<ATXTitle(ls[k])>>
        ELSE IF ls[k] = Rule /\ k > first /\ IsPara(ls[k - 1]) THEN <<TrimSpace(ls[k - 1])>>
        ELSE <<>>) \o HeadingsFrom(ls, k + 1, first)

\* the line that closes the front matter opened by line 1 (the last line when
\* nothing closes it), 0 when line 1 opens none
FrontMatterEnd(ls) ==
  IF ls[1] # Rule THEN 0
  ELSE IF \E k \in 2..Len(ls) : ls[k] = Rule
  THEN CHOOSE k \in 2..Len(ls) : ls[k] = Rule /\ \A l \in 2..(k - 1) : ls[l] # Rule
  ELSE Len(ls)

\* the titles of the headings found when re-reading a rendered document
ReadHeadings(text) ==
  LET ls == Split(text)
  IN HeadingsFrom(ls, FrontMatterEnd(ls) + 1, FrontMatterEnd(ls) + 1)

\* the titles of the headings of a text that is not the start of a document
BodyHeadings(text) == HeadingsFrom(Split(text), 1, 1)

\* the slides' titles in order
SlideTitles == [i \in 1..Len(slides) |-> slides[i].Title]

ContentsPlain ==
  \A i \in 1..Len(slides) :
    /\ BodyHeadings(slides[i].Content) = <<>>
    /\ ver = "root" => (slides[i].Content = <<>> \/ slides[i].Content[Len(slides[i].Content)] = NL)

C10_AllPartsConcatenated ==
  \A i \in 1..Len(slides) :
    (InBatchBeforePass(i) /\ task[i] = "ok") =>
      slides[i].Content \in {Concat(resp[i]), Sprintln(Concat(resp[i]))}


\* ------------------------------------------------------------ C8
\* no line of t has a trimmed form that starts with ":::"
NoTagLine(t) ==
  \A k \in 1..Len(Split(t)) : ~HasPrefix(TrimSpace(Split(t)[k]), <<":", ":", ":">>)

\* no line of t has leading or trailing whitespace
LinesTrimmed(t) ==
  \A k \in 1..Len(Split(t)) : TrimSpace(Split(t)[k]) = Split(t)[k]

\* C8 as stated: on a text with no tag line, extractTextFromQiitaBlock returns
\* the text itself.
C8_FilterIsIdentityOnFiltered ==
  (q_pc = "done" /\ NoTagLine(q_text)) => q_result = q_text

\* C8 as amended: on a text with no tag line whose lines are already trimmed,
\* extractTextFromQiitaBlock returns the text followed by one more newline; every
\* output of the filter is such a text, so filtering an output again adds exactly
\* one newline and drops nothing.
C8_FilterAddsNewline ==
  /\ (q_pc = "done" /\ NoTagLine(q_text) /\ LinesTrimmed(q_text))
        => q_result = q_text \o <<NL>>
  /\ q_pass = 2 => (NoTagLine(q_text) /\ LinesTrimmed(q_text))

\* C8's case: the filter has run on its own non-empty output
C8_Witness ==
  /\ q_pc = "done"
  /\ q_pass = 2
  /\ Contains(q_text, <<"a">>)
  /\ Contains(q_text, <<":">>)
  /\ q_result = q_text \o <<NL>>

\* ------------------------------------------------------------ C11
\* a goroutine of slide i is running: started and not yet returned
InFlight(i) == task[i] \in {"ready", "sent"}

\* the contents the run was called with
CalledWith ==
  [i \in 1..Len(slides) |-> [Title |-> slides[i].Title, Content |-> InitialContent(i)]]

\* what the goroutine of slide i left in a content, by its own outcome alone
Outcome(content, i) ==
  IF task[i] = "ok" THEN AssignParts(content, resp[i]) ELSE content

RECURSIVE InOrder(_, _)
\* the batches from b on run one after the other, each batch's goroutines in
\* slide order, each batch followed by its reattachment pass
InOrder(sl, b) ==
  IF b > Len(slide_parts) THEN sl
  ELSE InOrder(ReattachPass([i \in 1..Len(sl) |->
                               IF i \in BatchSet(b)
                               THEN [sl[i] EXCEPT !.Content = Outcome(@, i)]
                               ELSE sl[i]],
                            images, images_index),
               b + 1)

\* one step of the run: a content that changes while goroutines are running is
\* the content of a slide of the running batch, changed by the return of that
\* slide's own goroutine, and the prompt a goroutine sends is its own slide's
\* content; any other change of a content is made by the reattachment pass, with
\* no goroutine running
C11_Step ==
  /\ \A i \in 1..Len(slides) :
       slides'[i].Content # slides[i].Content =>
         \/ /\ an_pc = "wait"
            /\ i \in BatchSet(j)
            /\ task[i] = "sent"
            /\ task'[i] \in {"ok", "failed"}
            /\ \A k \in 1..Len(slides) : k # i => slides'[k] = slides[k]
         \/ /\ an_pc = "attach"
            /\ \A k \in 1..Len(slides) : ~InFlight(k)
  /\ \A i \in 1..Len(slides) :
       prompt'[i] # prompt[i] => (task[i] = "ready" /\ prompt'[i] = slides[i].Content)

\* C11: under every interleaving of the goroutines of a batch, a goroutine reads
\* and writes only the content of the slide it was started for, the reattachment
\* pass writes contents only when no goroutine is running, every slide of a
\* joined batch was handled by its own goroutine, and the contents returned are
\* those of the run in which the goroutines of each batch finish in slide order:
\* they depend on each request's outcome, not on the order of completion.
C11_TasksWriteOwnSlide ==
  /\ [][C11_Step]_vars
  /\ [](an_pc = "attach" => \A i \in BatchSet(j) : task[i] \in {"ok", "failed"})
  /\ [](an_pc = "done" => slides = InOrder(CalledWith, 1))

\* C11's case: in a batch of two the goroutine of the later slide has answered
\* while the one of the earlier slide is waiting for its response, and there are
\* images for the pass to attach
C11_Witness ==
  /\ an_pc = "wait"
  /\ Len(slide_parts[j]) = 2
  /\ task[slide_parts[j][1]] = "sent"
  /\ task[slide_parts[j][2]] = "ok"
  /\ Len(images) > 0

\* ------------------------------------------------------------ C12
\* the node at position p of d lies below the node at position q
Below(d, q, p) == q < p /\ p <= q + d[q].size - 1

\* the kinds whose case raises the flag in indev
FlagKinds == {"Heading", "ListItem", "Image", "Link", "AutoLink"}

\* one step of the walk of indev: a text node entered with the flag up under an
\* open slide (its text is skipped) lies below a node of a kind that raises the
\* flag, and entering a Text child of a heading leaves the open slide's content
\* as it is
C12_Step ==
  (ver = "indev" /\ p_pc = "walk" /\ pos <= Len(doc) /\ pos' = pos + 1) =>
    /\ (afterOption /\ currentSlide # <<>> /\ doc[pos].kind \in TextKinds(ver)) =>
          \E q \in 1..(pos - 1) : doc[q].kind \in FlagKinds /\ Below(doc, q, pos)
    /\ (doc[pos].kind = "Text" /\
        \E q \in 1..(pos - 1) : doc[q].kind = "Heading" /\ Below(doc, q, pos)) =>
          currentSlide' = currentSlide

\* C12 as stated: the flag raised on entering a heading, list item, image, link
\* or autolink only ever suppresses a text node inside that same node: no text
\* of a following sibling or block is skipped under an open slide, and no text
\* child of a heading is appended to slide content.
C12_FlagSuppressesOnlyNestedText == [][C12_Step]_vars

\* ------------------------------------------------------------ C13
\* C13: when every request eventually returns (SpecLive), the run eventually
\* returns, and by then every slide has been requested exactly once; and as long
\* as a request has not returned, the run waits in wg.Wait() of that request's
\* batch: it starts no later batch and does not return, so a request that never
\* returns stalls it for ever.
C13_ReturnsIfRequestsReturn ==
  /\ <>(an_pc = "done")
  /\ [](an_pc = "done" => \A i \in 1..Len(slides) : requests[i] = 1)
  /\ [](\A i \in 1..Len(slides) :
          task[i] = "sent" =>
            /\ an_pc = "wait"
            /\ j = BatchOf(i)
            /\ \A k \in 1..Len(slides) : BatchOf(k) > j => task[k] = "none")

\* C13's case: a run of two batches has returned, a request of the first batch
\* having failed
C13_Witness ==
  /\ an_pc = "done"
  /\ Len(slide_parts) = 2
  /\ task[1] = "failed"
  /\ \A i \in 1..Len(slides) : requests[i] = 1

\* ------------------------------------------------------------ C14
\* how many times the text t occurs in the text s
Occurrences(s, t) ==
  Cardinality({p \in 1..(Len(s) - Len(t) + 1) : SubSeq(s, p, p + Len(t) - 1) = t})

RECURSIVE TotalOccurrences(_, _, _)
\* how many times the text t occurs in the contents of the slides from i on
TotalOccurrences(sl, i, t) ==
  IF i > Len(sl) THEN 0
  ELSE Occurrences(sl[i].Content, t) + TotalOccurrences(sl, i + 1, t)

\* C14 as stated: when analyzeContentWithGemini returns, the markup of each
\* deferred image occurs exactly once in the contents of the slides, whatever
\* the number of batches.
C14_EachImageExactlyOnce ==
  an_pc = "done" =>
    \A k \in 1..Len(images) : TotalOccurrences(slides, 1, images[k]) = 1

\* ------------------------------------------------------------ C15
\* the document being converted has an image with this markup
OwnImage(markup) ==
  \E p \in 1..Len(doc) : doc[p].kind = "Image" /\ ImageMarkup(doc[p].dest) = markup

RECURSIVE OwnIndexes(_, _, _)
\* the indexes parseMarkdown records for the images of d from position p on, c
\* being the number of qualifying headings entered before p
OwnIndexes(d, p, c) ==
  IF p > Len(d) THEN <<>>
  ELSE IF d[p].kind = "Heading" /\ IsTitleLevel(d[p].level) THEN OwnIndexes(d, p + 1, c + 1)
  ELSE (IF d[p].kind = "Image" /\ c > 0 THEN <<c>> ELSE <<>>) \o OwnIndexes(d, p + 1, c)

\* C15 as stated: the lists images and images_index that a summarization run
\* sees describe the document segmented by the parseMarkdown call of the same
\* md2s call only, and no image recorded for an earlier document is attached to
\* a slide of the document being converted.
C15_ImagesOfThisDocumentOnly ==
  (p_pc = "done" /\ an_pc \notin {"off"}) =>
    /\ images_index = OwnIndexes(doc, 1, 0)
    /\ \A k \in 1..Len(images) : OwnImage(images[k])
    /\ \A i \in 1..Len(slides) : \A k \in 1..Len(images) :
         Contains(slides[i].Content, images[k]) => OwnImage(images[k])

\* ------------------------------------------------------------ C16
\* image_counter when the pass reaches slide i (i counted from 1): the number
\* of earlier slides whose position is recorded in images_index
CounterAt(i) == Cardinality({k \in 1..(i - 1) : IndexRecorded(images_index, k)})

\* C16: images and images_index always have the same length, and in every
\* reattachment pass, for every slide whose position is recorded, the counter
\* that indexes images is below len(images) when images[image_counter] is read;
\* also in a process that has segmented several documents.
C16_ImageListsInStep ==
  /\ Len(images) = Len(images_index)
  /\ an_pc = "attach" =>
       \A i \in 1..Len(slides) :
         IndexRecorded(images_index, i) => CounterAt(i) < Len(images)

\* C16's case: a reattachment pass is about to run in the second conversion of
\* the process, over two slides that both have a recorded position, one of them
\* recorded by the first conversion
C16_Witness ==
  /\ an_pc = "attach"
  /\ Len(slides) = 2
  /\ IndexRecorded(images_index, 1)
  /\ IndexRecorded(images_index, 2)
  /\ Len(images) > Len(OwnIndexes(doc, 1, 0))
  /\ CounterAt(2) = 1

=============================================================================
